---- MODULE Spec2Model ----
(***************************************************************************)
(* A model of the AVL tree of src/lib.rs: the tree and its nodes, insertion *)
(* with rebalancing, lookup, the borrowing range iterator and the consuming *)
(* iterator.  Element values are integers compared with the usual order.    *)
(***************************************************************************)
EXTENDS Integers, Sequences, FiniteSets, TLC

\* ------------------------------------------------------------------ bounds
MaxVal == 5        \* element values and keys are 0..MaxVal
MaxScript == 5     \* longest scripted input sequence

Values == 0..MaxVal

\* ------------------------------------------------------------- data model
\* enum AVLTree<T> { Empty, NonEmpty(Box<Node<T>>) }
Empty == [tag |-> "Empty"]

NonEmpty(n) == [tag |-> "NonEmpty", node |-> n]

\* struct Node<T> { value, left, right, balance_factor }
Node(v, l, r, bf) == [value |-> v, left |-> l, right |-> r, balance_factor |-> bf]

\* The result of an operation that ran into panic!() or unreachable!().
Panic == [tag |-> "Panic"]

\* Option<T>
None == [tag |-> "None"]

Some(x) == [tag |-> "Some", v |-> x]

\* Ord::cmp on the element type
cmp(a, b) == IF a < b THEN "Less" ELSE IF a = b THEN "Equal" ELSE "Greater"

\* fn left(&mut self) -> &mut Self, panicking on an Empty tree
AVLTree_left(self) == IF self.tag # "NonEmpty" THEN Panic ELSE self.node.left

\* fn right(&mut self) -> &mut Self, panicking on an Empty tree
AVLTree_right(self) == IF self.tag # "NonEmpty" THEN Panic ELSE self.node.right

\* fn value(&self) -> Option<&T>
AVLTree_value(self) == IF self.tag = "NonEmpty" THEN Some(self.node.value) ELSE None

\* ---------------------------------------------------------------- rotation
\* rotate_right taking the left child's left subtree, not its right one.
rotate_right_takes_left(self) ==
    IF self.tag # "NonEmpty" THEN Panic
    ELSE LET v == self
             left == v.node.left
         IN  IF left.tag # "NonEmpty" THEN Panic
             ELSE LET left_right == left.node.left
                      v2 == [v EXCEPT !.node.left = left_right]
                  IN  [left EXCEPT !.node.left = Empty, !.node.right = v2]

\* fn rotate_right(&mut self): left() and right() panic on an Empty tree.
rotate_right(self) ==
    IF self.tag # "NonEmpty" THEN Panic
    ELSE LET v == self
             left == v.node.left
         IN  IF left.tag # "NonEmpty" THEN Panic
             ELSE LET left_right == left.node.right
                      v2 == [v EXCEPT !.node.left = left_right]
                  IN  [left EXCEPT !.node.right = v2]

\* rotate_left that never puts right_left back under v.
rotate_left_drops(self) ==
    IF self.tag # "NonEmpty" THEN Panic
    ELSE LET v == self
             right == v.node.right
         IN  IF right.tag # "NonEmpty" THEN Panic
             ELSE LET v2 == [v EXCEPT !.node.right = Empty]
                  IN  [right EXCEPT !.node.left = v2]

\* fn rotate_left(&mut self)
rotate_left(self) ==
    IF self.tag # "NonEmpty" THEN Panic
    ELSE LET v == self
             right == v.node.right
         IN  IF right.tag # "NonEmpty" THEN Panic
             ELSE LET right_left == right.node.left
                      v2 == [v EXCEPT !.node.right = right_left]
                  IN  [right EXCEPT !.node.left = v2]

\* ----------------------------------------------------------------- balance
\* The (a, b) table of the single right rotation, keyed on the left child's
\* factor lf.
single_right_factors(lf) == IF lf = -1 THEN <<0, 0>> ELSE <<-1, 1>>

\* The left-right table with the rows of -1 and 1 exchanged.
double_right_factors_swapped(g) ==
    CASE g = -1 -> <<0, -1>>
      [] g = 0  -> <<0, 0>>
      [] g = 1  -> <<1, 0>>
      [] OTHER  -> <<>>

\* The (a, b) table of the left-right double rotation, keyed on the factor
\* of the left child's right child; <<>> stands for unreachable!().
double_right_factors(g) ==
    CASE g = -1 -> <<1, 0>>
      [] g = 0  -> <<0, 0>>
      [] g = 1  -> <<0, -1>>
      [] OTHER  -> <<>>

\* The (a, b) table of the single left rotation, keyed on the right child's
\* factor lf.
single_left_factors(lf) == IF lf = 1 THEN <<0, 0>> ELSE <<1, -1>>

\* The right-left table without the row of 0.
double_left_factors_no_zero(g) ==
    CASE g = 1  -> <<-1, 0>>
      [] g = -1 -> <<0, 1>>
      [] OTHER  -> <<>>

\* The (a, b) table of the right-left double rotation, keyed on the factor
\* of the right child's left child; <<>> stands for unreachable!().
double_left_factors(g) ==
    CASE g = 1  -> <<-1, 0>>
      [] g = 0  -> <<0, 0>>
      [] g = -1 -> <<0, 1>>
      [] OTHER  -> <<>>

\* The arm of balance for balance_factor == -2.
balance_left_heavy(self) ==
    IF self.node.left.tag # "NonEmpty" THEN Panic
    ELSE LET lf == self.node.left.node.balance_factor
         IN  IF lf = -1 \/ lf = 0
             THEN LET ab == single_right_factors(lf)
                      s1 == rotate_right(self)
                  IN  IF s1.tag # "NonEmpty" \/ s1.node.right.tag # "NonEmpty"
                      THEN Panic
                      ELSE [s1 EXCEPT !.node.right.node.balance_factor = ab[1],
                                      !.node.balance_factor = ab[2]]
             ELSE IF lf = 1
             THEN IF self.node.left.node.right.tag # "NonEmpty" THEN Panic
                  ELSE LET ab == double_right_factors(
                                   self.node.left.node.right.node.balance_factor)
                       IN  IF ab = <<>> THEN Panic
                           ELSE LET l1 == rotate_left(self.node.left)
                                    s1 == IF l1.tag # "NonEmpty" THEN Panic
                                          ELSE rotate_right([self EXCEPT !.node.left = l1])
                                IN  IF \/ s1.tag # "NonEmpty"
                                       \/ s1.node.right.tag # "NonEmpty"
                                       \/ s1.node.left.tag # "NonEmpty"
                                    THEN Panic
                                    ELSE [s1 EXCEPT
                                            !.node.right.node.balance_factor = ab[1],
                                            !.node.left.node.balance_factor = ab[2],
                                            !.node.balance_factor = 0]
             ELSE Panic

\* The arm of balance for balance_factor == 2.
balance_right_heavy(self) ==
    IF self.node.right.tag # "NonEmpty" THEN Panic
    ELSE LET lf == self.node.right.node.balance_factor
         IN  IF lf = 1 \/ lf = 0
             THEN LET ab == single_left_factors(lf)
                      s1 == rotate_left(self)
                  IN  IF s1.tag # "NonEmpty" \/ s1.node.left.tag # "NonEmpty"
                      THEN Panic
                      ELSE [s1 EXCEPT !.node.left.node.balance_factor = ab[1],
                                      !.node.balance_factor = ab[2]]
             ELSE IF lf = -1
             THEN IF self.node.right.node.left.tag # "NonEmpty" THEN Panic
                  ELSE LET ab == double_left_factors(
                                   self.node.right.node.left.node.balance_factor)
                       IN  IF ab = <<>> THEN Panic
                           ELSE LET r1 == rotate_right(self.node.right)
                                    s1 == IF r1.tag # "NonEmpty" THEN Panic
                                          ELSE rotate_left([self EXCEPT !.node.right = r1])
                                IN  IF \/ s1.tag # "NonEmpty"
                                       \/ s1.node.left.tag # "NonEmpty"
                                       \/ s1.node.right.tag # "NonEmpty"
                                    THEN Panic
                                    ELSE [s1 EXCEPT
                                            !.node.left.node.balance_factor = ab[1],
                                            !.node.right.node.balance_factor = ab[2],
                                            !.node.balance_factor = 0]
             ELSE Panic

\* balance without the arm for balance_factor == 2.
balance_left_only(self) ==
    IF self.tag # "NonEmpty" THEN self
    ELSE CASE self.node.balance_factor = -2 -> balance_left_heavy(self)
           [] OTHER -> self

\* fn balance(&mut self)
balance(self) ==
    IF self.tag # "NonEmpty" THEN self
    ELSE CASE self.node.balance_factor = -2 -> balance_left_heavy(self)
           [] self.node.balance_factor = 2  -> balance_right_heavy(self)
           [] OTHER -> self

\* ------------------------------------------------------------------ insert
\* The value add returns: the tree it leaves in *self and (inserted, deepened).
AddResult(t, i, d) == [tree |-> t, inserted |-> i, deepened |-> d]

\* The match with the flags of zero and non-zero factors exchanged.
deepened_after_inverted(bf) ==
    CASE bf = -1 -> <<TRUE>>
      [] bf = 0  -> <<FALSE>>
      [] bf = 1  -> <<TRUE>>
      [] OTHER   -> <<>>

\* The match reporting deepened whatever the factor was.
deepened_after_always(bf) ==
    CASE bf \in {-1, 0, 1} -> <<TRUE>>
      [] OTHER -> <<>>

\* The match on node.balance_factor once the child reported deepened: the
\* deepened flag passed upward as <<flag>>, <<>> standing for unreachable!().
deepened_after(bf) ==
    CASE bf = -1 -> <<FALSE>>
      [] bf = 0  -> <<TRUE>>
      [] bf = 1  -> <<FALSE>>
      [] OTHER   -> <<>>

\* The Less and Greater arms of add once the recursive call returned r:
\* side is "right" with delta 1, or "left" with delta -1.
add_descended(self, r, side, delta) ==
    IF r.tree.tag = "Panic" THEN AddResult(Panic, FALSE, FALSE)
    ELSE LET s1 == IF side = "right" THEN [self EXCEPT !.node.right = r.tree]
                                     ELSE [self EXCEPT !.node.left = r.tree]
         IN  IF r.deepened
             THEN LET d == deepened_after(self.node.balance_factor)
                  IN  IF d = <<>> THEN AddResult(Panic, FALSE, FALSE)
                      ELSE AddResult(
                             balance([s1 EXCEPT !.node.balance_factor = @ + delta]),
                             r.inserted, d[1])
             ELSE AddResult(balance(s1), r.inserted, r.deepened)

\* The Equal arm reporting the subtree as deepened.
add_equal_deepened(self) == AddResult(balance(self), FALSE, TRUE)

\* The Equal arm of add: (false, false), then self.balance().
add_equal(self) == AddResult(balance(self), FALSE, FALSE)

RECURSIVE add(_, _)
\* fn add(&mut self, value: T) -> (bool, bool)
add(self, value) ==
    IF self.tag = "Empty"
    THEN AddResult(balance(NonEmpty(Node(value, Empty, Empty, 0))), TRUE, TRUE)
    ELSE LET c == cmp(self.node.value, value)
         IN  CASE c = "Equal"   -> add_equal(self)
               [] c = "Less"    ->
                    add_descended(self, add(self.node.right, value), "right", 1)
               [] c = "Greater" ->
                    add_descended(self, add(self.node.left, value), "left", -1)

\* pub fn insert(&mut self, value: T) -> bool: the tree left and the result.
insert(self, value) == add(self, value)

\* ------------------------------------------------------- size and lookup
\* Natural numbers too large for a machine word, as little-endian sequences
\* of limbs in base 10^4 without leading zero limbs.
RECURSIVE BigMul(_, _, _)
\* x * k + carry, for a small k.
BigMul(x, k, carry) ==
    IF x = <<>>
    THEN IF carry = 0 THEN <<>>
         ELSE <<carry % 10000>> \o BigMul(<<>>, k, carry \div 10000)
    ELSE LET p == Head(x) * k + carry
         IN  <<p % 10000>> \o BigMul(Tail(x), k, p \div 10000)

RECURSIVE BigPow(_, _)
\* k^e, for a small k >= 1.
BigPow(k, e) == IF e = 0 THEN <<1>> ELSE BigMul(BigPow(k, e - 1), k, 0)

RECURSIVE BigLess(_, _)
\* x < y
BigLess(x, y) ==
    IF Len(x) # Len(y) THEN Len(x) < Len(y)
    ELSE IF x = <<>> THEN FALSE
    ELSE IF x[Len(x)] # y[Len(y)] THEN x[Len(x)] < y[Len(y)]
    ELSE BigLess(SubSeq(x, 1, Len(x) - 1), SubSeq(y, 1, Len(y) - 1))

\* 2^(100(d - 1) + 132) = 4 * 1024^(10d + 3), for every depth d a tree can
\* have.
PowDepth == [d \in 0..(MaxVal + 1) |-> BigMul(BigPow(1024, 10 * d + 3), 4, 0)]

\* (n + 2)^145 = ((n + 2)^5)^29, for every size n a tree can have.
PowSize == [n \in 0..(MaxVal + 1) |-> BigPow((n + 2) ^ 5, 29)]

RECURSIVE depth(_)
\* fn depth(&self) -> usize
depth(self) ==
    IF self.tag = "Empty" THEN 0
    ELSE LET l == depth(self.node.left)
             r == depth(self.node.right)
         IN  (IF l >= r THEN l ELSE r) + 1

RECURSIVE len(_)
\* fn check_height(tree) -> bool: (l <= h) & (h < r) with h = depth - 1,
\* l = log2(n + 1) - 1 and r = 1.45 * log2(n + 2) - 1.32, in exact integer
\* form: l <= h iff n + 1 <= 2^depth, and h < r iff
\* 2^(100h + 132) < (n + 2)^145.
check_height(tree) ==
    LET n == len(tree)
        d == depth(tree)
    IN  /\ n + 1 <= 2 ^ d
        /\ BigLess(PowDepth[d], PowSize[n])

\* len counting the left subtree only.
len_left_only(self) ==
    IF self.tag = "Empty" THEN 0
    ELSE 1 + len(self.node.left)

\* pub fn len(&self) -> usize
len(self) ==
    IF self.tag = "Empty" THEN 0
    ELSE 1 + len(self.node.left) + len(self.node.right)

\* pub fn is_empty(&self) -> bool
is_empty(self) == self.tag = "Empty"

RECURSIVE get(_, _)
\* get descending to the wrong side.
get_wrong_side(self, value) ==
    IF self.tag = "Empty" THEN None
    ELSE LET c == cmp(value, self.node.value)
         IN  CASE c = "Less"    -> get(self.node.right, value)
               [] c = "Equal"   -> Some(self.node.value)
               [] c = "Greater" -> get(self.node.left, value)

\* pub fn get<Q>(&self, value: &Q) -> Option<&T>
get(self, value) ==
    IF self.tag = "Empty" THEN None
    ELSE LET c == cmp(value, self.node.value)
         IN  CASE c = "Less"    -> get(self.node.left, value)
               [] c = "Equal"   -> Some(self.node.value)
               [] c = "Greater" -> get(self.node.right, value)

\* A returned reference &T.
Ref(x) == [tag |-> "Ref", v |-> x]

\* Index::index: self.get(index).unwrap(), which panics on None.
index(self, k) ==
    LET g == get(self, k) IN IF g = None THEN Panic ELSE Ref(g.v)

\* ------------------------------------------------------ borrowing iterator
\* struct RangeIter { end, stack }: the stack holds the referenced nodes,
\* the top of the Vec is the last element of the sequence.
RangeIter(e, st) == [end |-> e, stack |-> st]

RECURSIVE RangeIter_traverse_left(_, _)
\* RangeIter::traverse_left: push the left spine of tree.
RangeIter_traverse_left(stack, tree) ==
    IF tree.tag = "NonEmpty"
    THEN RangeIter_traverse_left(Append(stack, tree.node), tree.node.left)
    ELSE stack

RECURSIVE RangeIter_traverse(_, _, _)
\* traverse that does not push the node equal to start.
RangeIter_traverse_skips_equal(stack, tree, start) ==
    IF tree.tag = "Empty" THEN stack
    ELSE LET c == cmp(start, tree.node.value)
         IN  CASE c = "Less"    ->
                    RangeIter_traverse(Append(stack, tree.node), tree.node.left, start)
               [] c = "Equal"   -> stack
               [] c = "Greater" ->
                    RangeIter_traverse(stack, tree.node.right, start)

\* traverse that pushes every node it passes.
RangeIter_traverse_pushes_all(stack, tree, start) ==
    IF tree.tag = "Empty" THEN stack
    ELSE LET c == cmp(start, tree.node.value)
         IN  CASE c = "Less"    ->
                    RangeIter_traverse(Append(stack, tree.node), tree.node.left, start)
               [] c = "Equal"   -> Append(stack, tree.node)
               [] c = "Greater" ->
                    RangeIter_traverse(Append(stack, tree.node), tree.node.right, start)

\* RangeIter::traverse: push the nodes >= start met on the descent to start.
RangeIter_traverse(stack, tree, start) ==
    IF tree.tag = "Empty" THEN stack
    ELSE LET c == cmp(start, tree.node.value)
         IN  CASE c = "Less"    ->
                    RangeIter_traverse(Append(stack, tree.node), tree.node.left, start)
               [] c = "Equal"   -> Append(stack, tree.node)
               [] c = "Greater" ->
                    RangeIter_traverse(stack, tree.node.right, start)

\* RangeIter::new
RangeIter_new(tree, start, end) ==
    IF start = None
    THEN RangeIter(end, RangeIter_traverse_left(<<>>, tree))
    ELSE RangeIter(end, RangeIter_traverse(<<>>, tree, start.v))

\* pub fn range(&self, l, r)
range(self, l, r) == RangeIter_new(self, l, r)

\* pub fn iter(&self)
iter(self) == range(self, None, None)

\* The comparison with end reversed.
RangeIter_yields_reversed(end, node) ==
    IF end = None THEN TRUE ELSE cmp(end.v, node.value) = "Less"

\* The end bound taken as inclusive.
RangeIter_yields_inclusive(end, node) ==
    IF end = None THEN TRUE ELSE cmp(end.v, node.value) # "Less"

\* Whether next yields the popped node: end is None or end > node.value.
RangeIter_yields(end, node) ==
    IF end = None THEN TRUE ELSE cmp(end.v, node.value) = "Greater"

\* next that does not push the left spine of the right subtree.
RangeIter_next_skips_right(it) ==
    IF it.stack = <<>> THEN [iter |-> it, item |-> None]
    ELSE LET node == it.stack[Len(it.stack)]
             popped == SubSeq(it.stack, 1, Len(it.stack) - 1)
         IN  IF RangeIter_yields(it.end, node)
             THEN [iter |-> RangeIter(it.end, popped), item |-> Some(node.value)]
             ELSE [iter |-> RangeIter(it.end, popped), item |-> None]

\* RangeIter::next: the iterator left and the item returned.
RangeIter_next(it) ==
    IF it.stack = <<>> THEN [iter |-> it, item |-> None]
    ELSE LET node == it.stack[Len(it.stack)]
             popped == SubSeq(it.stack, 1, Len(it.stack) - 1)
         IN  IF RangeIter_yields(it.end, node)
             THEN [iter |-> RangeIter(it.end, RangeIter_traverse_left(popped, node.right)),
                   item |-> Some(node.value)]
             ELSE [iter |-> RangeIter(it.end, popped), item |-> None]

\* ------------------------------------------------------ consuming iterator
RECURSIVE IntoIter_traverse_left(_, _)
\* IntoIter::traverse_left: move the nodes of the left spine onto the stack,
\* each with its left link replaced by Empty.
IntoIter_traverse_left(stack, tree) ==
    IF tree.tag = "NonEmpty"
    THEN IntoIter_traverse_left(Append(stack, [tree.node EXCEPT !.left = Empty]),
                                tree.node.left)
    ELSE stack

\* IntoIter::new
IntoIter_new(tree) == [stack |-> IntoIter_traverse_left(<<>>, tree)]

\* next that drops the right subtree of the popped node.
IntoIter_next_skips_right(it) ==
    IF it.stack = <<>> THEN [iter |-> it, item |-> None]
    ELSE LET node == it.stack[Len(it.stack)]
             popped == SubSeq(it.stack, 1, Len(it.stack) - 1)
         IN  [iter |-> [stack |-> popped], item |-> Some(node.value)]

\* IntoIter::next: the iterator left and the item returned.
IntoIter_next(it) ==
    IF it.stack = <<>> THEN [iter |-> it, item |-> None]
    ELSE LET node == it.stack[Len(it.stack)]
             popped == SubSeq(it.stack, 1, Len(it.stack) - 1)
         IN  [iter |-> [stack |-> IntoIter_traverse_left(popped, node.right)],
              item |-> Some(node.value)]

\* ------------------------------------------------------------- references
RECURSIVE Elems(_)
\* The set of values stored in a tree.
Elems(t) ==
    IF t.tag # "NonEmpty" THEN {}
    ELSE Elems(t.node.left) \cup {t.node.value} \cup Elems(t.node.right)

RECURSIVE Sorted(_)
\* The reference of the tests: the values of a set in ascending order.
Sorted(S) ==
    IF S = {} THEN <<>>
    ELSE LET m == CHOOSE x \in S : \A y \in S : x <= y
         IN  <<m>> \o Sorted(S \ {m})

\* The set of elements of a sequence.
SeqRange(q) == {q[i] : i \in 1..Len(q)}

\* Option<&K> over the keys.
OptValues == {None} \cup {Some(v) : v \in Values}

\* The literal inputs of tests::rotate_right and tests::rotate_left.
TestScripts == {<<3, 4, 1, 2, 0>>, <<3, 1, 10, 8, 13>>}

\* The input sequences fed to the tree one add at a time.
Scripts == UNION {[1..n -> Values] : n \in 0..MaxScript} \cup TestScripts

\* ------------------------------------------------------------------- state
VARIABLES
    tree,      \* the AVLTree held by the caller (Empty once moved out)
    prev,      \* the tree before the last call made on the tree itself
    call,      \* the last call: [op, arg, ret]
    inserted,  \* the reference set: every value passed to insert so far
    riter,     \* the live RangeIter, or None
    start,     \* the start bound the live RangeIter was created with
    out,       \* the items yielded so far by the live iterator
    into,      \* the IntoIter the tree was moved into, or None
    panicked,  \* a panic!(), unreachable!() or unwrap() on None was hit
    input,     \* the scripted input sequence (<<>> when calls are free)
    rest       \* the part of input not yet added

vars == <<tree, prev, call, inserted, riter, start, out, into, panicked, input, rest>>

Call(o, a, r) == [op |-> o, arg |-> a, ret |-> r]

\* impl Default for AVLTree: the tree starts Empty.
Init ==
    /\ tree = Empty
    /\ prev = Empty
    /\ call = Call("default", <<>>, <<>>)
    /\ inserted = {}
    /\ riter = None
    /\ start = None
    /\ out = <<>>
    /\ into = None
    /\ panicked = FALSE
    /\ input = <<>>
    /\ rest = <<>>

\* The tree can be called: it was not moved into an IntoIter, nothing panicked.
Usable == ~panicked /\ into = None

\* A call that takes the tree by reference ends the borrow of the previous
\* RangeIter.
DropRangeIter == riter' = None /\ start' = None /\ out' = <<>>

\* tree.insert(v)
Insert(v) ==
    /\ Usable
    /\ LET r == insert(tree, v)
       IN  /\ tree' = r.tree
           /\ panicked' = (r.tree.tag = "Panic")
           /\ call' = Call("insert", v, r.inserted)
    /\ prev' = tree
    /\ inserted' = inserted \cup {v}
    /\ DropRangeIter
    /\ UNCHANGED <<into, input, rest>>

\* tree.get(&k)
Get(k) ==
    /\ Usable
    /\ call' = Call("get", k, get(tree, k))
    /\ prev' = tree
    /\ DropRangeIter
    /\ UNCHANGED <<tree, inserted, into, panicked, input, rest>>

\* tree[&k]
Index(k) ==
    /\ Usable
    /\ LET r == index(tree, k)
       IN  /\ call' = Call("index", k, r)
           /\ panicked' = (r = Panic)
    /\ prev' = tree
    /\ DropRangeIter
    /\ UNCHANGED <<tree, inserted, into, input, rest>>

\* tree.range(l, r)
Range(l, r) ==
    /\ Usable
    /\ riter' = range(tree, l, r)
    /\ start' = l
    /\ out' = <<>>
    /\ call' = Call("range", <<l, r>>, <<>>)
    /\ prev' = tree
    /\ UNCHANGED <<tree, inserted, into, panicked, input, rest>>

\* tree.iter()
Iter ==
    /\ Usable
    /\ riter' = iter(tree)
    /\ start' = None
    /\ out' = <<>>
    /\ call' = Call("iter", <<>>, <<>>)
    /\ prev' = tree
    /\ UNCHANGED <<tree, inserted, into, panicked, input, rest>>

\* RangeIter::next on the live iterator
Next_RangeIter ==
    /\ Usable
    /\ riter # None
    /\ LET r == RangeIter_next(riter)
       IN  /\ riter' = r.iter
           /\ out' = IF r.item = None THEN out ELSE Append(out, r.item.v)
           /\ call' = Call("next", <<>>, r.item)
    /\ UNCHANGED <<tree, prev, inserted, start, into, panicked, input, rest>>

\* tree.into_iter(): the tree is moved into the iterator.
IntoIter ==
    /\ Usable
    /\ rest = <<>>
    /\ into' = IntoIter_new(tree)
    /\ tree' = Empty
    /\ prev' = tree
    /\ call' = Call("into_iter", <<>>, <<>>)
    /\ DropRangeIter
    /\ UNCHANGED <<inserted, panicked, input, rest>>

\* IntoIter::next
Next_IntoIter ==
    /\ ~panicked
    /\ into # None
    /\ LET r == IntoIter_next(into)
       IN  /\ into' = r.iter
           /\ out' = IF r.item = None THEN out ELSE Append(out, r.item.v)
           /\ call' = Call("into_next", <<>>, r.item)
    /\ UNCHANGED <<tree, prev, inserted, riter, start, panicked, input, rest>>

Next ==
    \/ \E v \in Values : Insert(v)
    \/ \E k \in Values : Get(k)
    \/ \E k \in Values : Index(k)
    \/ \E l \in OptValues, r \in OptValues : Range(l, r)
    \/ Iter
    \/ Next_RangeIter
    \/ IntoIter
    \/ Next_IntoIter

Spec == Init /\ [][Next]_vars

\* ------------------------------------------------------- scripted harness
\* The tests build a tree by adding the elements of an input one by one
\* (tree.add(vi), or FromIterator::from_iter calling insert), then rotate
\* the root once or consume the tree.
InitScript ==
    /\ input \in Scripts
    /\ rest = input
    /\ tree = Empty
    /\ prev = Empty
    /\ call = Call("default", <<>>, <<>>)
    /\ inserted = {}
    /\ riter = None
    /\ start = None
    /\ out = <<>>
    /\ into = None
    /\ panicked = FALSE

\* for v in iter { tree.insert(v) } / tree.add(v): one element of the input.
ScriptAdd ==
    /\ Usable
    /\ rest # <<>>
    /\ LET r == add(tree, Head(rest))
       IN  /\ tree' = r.tree
           /\ panicked' = (r.tree.tag = "Panic")
           /\ call' = Call("add", Head(rest), <<r.inserted, r.deepened>>)
    /\ prev' = tree
    /\ inserted' = inserted \cup {Head(rest)}
    /\ rest' = Tail(rest)
    /\ UNCHANGED <<riter, start, out, into, input>>

Rotated == call.op \in {"rotate_right", "rotate_left"}

\* tree.rotate_right() at the root, once the input is added
RotateRight ==
    /\ Usable
    /\ rest = <<>>
    /\ ~Rotated
    /\ tree' = rotate_right(tree)
    /\ panicked' = (tree' = Panic)
    /\ prev' = tree
    /\ call' = Call("rotate_right", <<>>, <<>>)
    /\ UNCHANGED <<inserted, riter, start, out, into, input, rest>>

\* tree.rotate_left() at the root, once the input is added
RotateLeft ==
    /\ Usable
    /\ rest = <<>>
    /\ ~Rotated
    /\ tree' = rotate_left(tree)
    /\ panicked' = (tree' = Panic)
    /\ prev' = tree
    /\ call' = Call("rotate_left", <<>>, <<>>)
    /\ UNCHANGED <<inserted, riter, start, out, into, input, rest>>

NextScript ==
    \/ ScriptAdd
    \/ RotateRight
    \/ RotateLeft
    \/ IntoIter
    \/ Next_IntoIter

SpecScript == InitScript /\ [][NextScript]_vars

\* ------------------------------------------------------------ properties
RECURSIVE IsAVL(_)
\* Every node's stored factor is height(right) - height(left), within 1.
IsAVL(t) ==
    \/ t.tag = "Empty"
    \/ /\ t.tag = "NonEmpty"
       /\ t.node.balance_factor = depth(t.node.right) - depth(t.node.left)
       /\ t.node.balance_factor \in {-1, 0, 1}
       /\ IsAVL(t.node.left)
       /\ IsAVL(t.node.right)

RECURSIVE IsBST(_)
\* Every node's left values are smaller and its right values greater.
IsBST(t) ==
    \/ t.tag = "Empty"
    \/ /\ t.tag = "NonEmpty"
       /\ \A x \in Elems(t.node.left) : x < t.node.value
       /\ \A x \in Elems(t.node.right) : x > t.node.value
       /\ IsBST(t.node.left)
       /\ IsBST(t.node.right)

\* C1: after every completed insert, every node of the tree has subtree
\* heights differing by at most 1 and stores exactly height(right) -
\* height(left) as its balance_factor.
C1_AVLBalance == call.op = "insert" => IsAVL(tree)

\* An insert just rebalanced at the root by a double rotation that left the
\* new left child left-heavy, in a tree three levels deep.
C1_Witness ==
    /\ call.op = "insert"
    /\ prev.tag = "NonEmpty"
    /\ tree.tag = "NonEmpty"
    /\ AVLTree_value(prev) # AVLTree_value(tree)
    /\ depth(tree) = 3
    /\ tree.node.left.node.balance_factor = -1
    /\ tree.node.right.node.balance_factor = 0

\* C2: after every completed insert, every node has only smaller values in
\* its left subtree and only greater values in its right subtree.
C2_BSTOrder == call.op = "insert" => IsBST(tree)

\* An insert that rotated at the root of a tree of at least five elements.
C2_Witness ==
    /\ call.op = "insert"
    /\ call.ret = TRUE
    /\ prev.tag = "NonEmpty"
    /\ tree.tag = "NonEmpty"
    /\ AVLTree_value(prev) # AVLTree_value(tree)
    /\ len(tree) >= 5

\* C3: insert of a value the tree does not hold returns true and leaves
\* exactly the previous values plus the new one, each stored once.
C3_InsertNew ==
    (call.op = "insert" /\ call.arg \notin Elems(prev)) =>
        /\ call.ret = TRUE
        /\ Elems(tree) = Elems(prev) \cup {call.arg}
        /\ len(tree) = len(prev) + 1

\* An insert of a new value into a tree of five that rebalanced it.
C3_Witness ==
    /\ call.op = "insert"
    /\ call.arg \notin Elems(prev)
    /\ len(prev) = 5
    /\ tree.tag = "NonEmpty"
    /\ AVLTree_value(prev) # AVLTree_value(tree)

\* C4: insert of a value the tree already holds returns false and leaves
\* the tree as it was, in shape, values and balance factors.
C4_InsertExisting ==
    (call.op = "insert" /\ call.arg \in Elems(prev)) =>
        /\ call.ret = FALSE
        /\ tree = prev

\* An insert of a value held at the third level of an unbalanced tree.
C4_Witness ==
    /\ call.op = "insert"
    /\ call.arg \in Elems(prev)
    /\ depth(prev) = 3
    /\ prev.node.balance_factor # 0
    /\ call.arg \notin {prev.node.value}
    /\ get(prev.node.left, call.arg) = None
    /\ prev.node.right.tag = "NonEmpty"
    /\ call.arg # prev.node.right.node.value

\* C5: len() is the number of distinct values inserted and is_empty()
\* holds exactly when that number is 0.
C5_LenDistinct ==
    Usable =>
        /\ len(tree) = Cardinality(inserted)
        /\ is_empty(tree) <=> (Cardinality(inserted) = 0)

\* A repeated value was just inserted into a tree of four.
C5_Witness ==
    /\ Usable
    /\ call.op = "insert"
    /\ call.ret = FALSE
    /\ len(tree) = 4
    /\ ~is_empty(tree)

\* p is an initial segment of q.
IsPrefix(p, q) == Len(p) <= Len(q) /\ SubSeq(q, 1, Len(p)) = p

\* The last next() on the live RangeIter returned None.
RangeDone == call.op = "next" /\ call.ret = None

\* C6: iter(), stepped until next() returns None, yields every stored
\* element exactly once in ascending order: the sorted reference of the
\* inserted values, neither shorter nor longer.
C6_IterSorted ==
    (riter # None /\ start = None /\ riter.end = None) =>
        /\ IsPrefix(out, Sorted(inserted))
        /\ RangeDone => out = Sorted(inserted)

\* A full iteration over a three-level tree of six elements has ended.
C6_Witness ==
    /\ riter # None /\ start = None /\ riter.end = None
    /\ RangeDone
    /\ Len(out) = 6
    /\ depth(tree) = 3

\* C7: for a tree built from any input sequence, repeats included,
\* into_iter stepped until None yields each distinct input value once in
\* ascending order and ends with an empty stack.
C7_IntoIterSorted ==
    (into # None /\ rest = <<>>) =>
        /\ IsPrefix(out, Sorted(SeqRange(input)))
        /\ (call.op = "into_next" /\ call.ret = None) =>
               /\ out = Sorted(SeqRange(input))
               /\ into.stack = <<>>

\* A tree built from an input with repeats was consumed to the end.
C7_Witness ==
    /\ into # None
    /\ call.op = "into_next" /\ call.ret = None
    /\ Len(out) = 3
    /\ Len(input) = 5
    /\ depth(prev) = 2

\* C8: range(Some(l), Some(r)) with l <= r yields exactly the stored v with
\* l <= v < r in ascending order.
C8_RangeBounded ==
    (riter # None /\ start # None /\ riter.end # None /\ start.v <= riter.end.v) =>
        LET ref == Sorted({v \in inserted : start.v <= v /\ v < riter.end.v})
        IN  /\ IsPrefix(out, ref)
            /\ RangeDone => out = ref

\* A bounded range ended on the stored end bound with the stack not yet
\* empty, having skipped stored elements below a stored start bound.
C8_Witness ==
    /\ riter # None /\ start # None /\ riter.end # None
    /\ start.v < riter.end.v
    /\ RangeDone
    /\ Len(out) >= 2
    /\ start.v \in inserted
    /\ riter.end.v \in inserted
    /\ \E v \in inserted : v < start.v
    /\ riter.stack # <<>>

\* C9: get(k) returns the stored element equal to k when k was inserted and
\* None otherwise; tree[k] returns the element get(k) holds for present k.
C9_Lookup ==
    /\ call.op = "get" =>
           call.ret = IF call.arg \in inserted THEN Some(call.arg) ELSE None
    /\ (call.op = "index" /\ call.arg \in inserted) =>
           /\ ~panicked
           /\ call.ret = Ref(call.arg)
           /\ Some(call.ret.v) = get(tree, call.arg)

\* tree[k] for a key stored at the third level of the tree.
C9_Witness ==
    /\ call.op = "index"
    /\ call.arg \in inserted
    /\ ~panicked
    /\ depth(tree) = 3
    /\ AVLTree_value(tree) # Some(call.arg)
    /\ AVLTree_value(AVLTree_left(tree)) # Some(call.arg)
    /\ AVLTree_value(AVLTree_right(tree)) # Some(call.arg)

\* The input of tests::rotate_right.
RotateRightInput == <<3, 4, 1, 2, 0>>

\* C10 as stated: after the fifth insertion of 3, 4, 1, 2, 0 the tree has
\* root 1, left child 0 and right child 3, and 3 has left child 2.
C10_AsStated ==
    (input = RotateRightInput /\ rest = <<>> /\ call.op = "add") =>
        /\ AVLTree_value(tree) = Some(1)
        /\ AVLTree_value(AVLTree_left(tree)) = Some(0)
        /\ AVLTree_value(AVLTree_right(tree)) = Some(3)
        /\ AVLTree_value(AVLTree_left(AVLTree_right(tree))) = Some(2)

\* C10: inserting 3, 4, 1, 2, 0 triggers no rotation: after the fifth
\* insertion the root is 3 with left child 1 (children 0 and 2) and right
\* child 4; rotate_right at the root then gives root 1, left child 0 and
\* right child 3, and 3 has left child 2.
C10_Scenario ==
    (input = RotateRightInput /\ rest = <<>>) =>
        /\ call.op = "add" =>
               /\ AVLTree_value(tree) = Some(3)
               /\ AVLTree_value(AVLTree_left(tree)) = Some(1)
               /\ AVLTree_value(AVLTree_left(AVLTree_left(tree))) = Some(0)
               /\ AVLTree_value(AVLTree_right(AVLTree_left(tree))) = Some(2)
               /\ AVLTree_value(AVLTree_right(tree)) = Some(4)
               /\ len(tree) = 5
        /\ call.op = "rotate_right" =>
               /\ AVLTree_value(tree) = Some(1)
               /\ AVLTree_value(AVLTree_left(tree)) = Some(0)
               /\ AVLTree_value(AVLTree_right(tree)) = Some(3)
               /\ AVLTree_value(AVLTree_left(AVLTree_right(tree))) = Some(2)

\* The root was rotated right after the five insertions.
C10_Witness ==
    /\ input = RotateRightInput
    /\ rest = <<>>
    /\ call.op = "rotate_right"
    /\ ~panicked
    /\ AVLTree_value(prev) = Some(3)

\* The input of tests::rotate_left.
RotateLeftInput == <<3, 1, 10, 8, 13>>

\* C11: inserting 3, 1, 10, 8, 13 and then rotating left at the root gives
\* root 10, whose left child is 3, whose right child is 8.
C11_RotateLeftScenario ==
    (input = RotateLeftInput /\ rest = <<>> /\ call.op = "rotate_left") =>
        /\ ~panicked
        /\ AVLTree_value(tree) = Some(10)
        /\ AVLTree_value(AVLTree_left(tree)) = Some(3)
        /\ AVLTree_value(AVLTree_right(AVLTree_left(tree))) = Some(8)

\* The root was rotated left after the five insertions, which had left 3
\* at the root.
C11_Witness ==
    /\ input = RotateLeftInput
    /\ rest = <<>>
    /\ call.op = "rotate_left"
    /\ AVLTree_value(prev) = Some(3)
    /\ len(prev) = 5

\* C12: a tree built by inserting n distinct values in any order has
\* h = depth - 1 with log2(n+1) - 1 <= h < 1.45*log2(n+2) - 1.32.
C12_HeightBound == (Usable /\ len(tree) = Cardinality(inserted)) => check_height(tree)

\* A tree of four elements with three levels, the fewest elements that
\* depth allows.
C12_Witness ==
    /\ Usable
    /\ call.op = "insert"
    /\ len(tree) = 4
    /\ depth(tree) = 3

\* C13: during any sequence of inserts no internal-consistency failure is
\* reached: no unreachable!() in add or balance, no node(), left() or
\* right() on an Empty subtree.
C13_NoInternalFailure ==
    call.op = "insert" => (~panicked /\ tree.tag # "Panic")

\* An insert was rebalanced at the root by a right-left double rotation
\* whose inner grandchild was left-heavy.
C13_Witness ==
    /\ call.op = "insert"
    /\ ~panicked
    /\ prev.tag = "NonEmpty"
    /\ tree.tag = "NonEmpty"
    /\ AVLTree_value(prev) # AVLTree_value(tree)
    /\ depth(tree) = 3
    /\ tree.node.right.node.balance_factor = 1
    /\ tree.node.left.node.balance_factor = 0

RECURSIVE DeepenedMatchesHeight(_, _)
\* At self and at every subtree add recurses into for value, the deepened
\* flag returned tells whether the subtree is one level higher afterwards.
DeepenedMatchesHeight(self, value) ==
    LET r == add(self, value)
    IN  /\ r.tree.tag # "Panic"
        /\ r.deepened <=> (depth(r.tree) = depth(self) + 1)
        /\ (~r.deepened) <=> (depth(r.tree) = depth(self))
        /\ (self.tag = "NonEmpty" /\ self.node.value # value) =>
               LET child == IF cmp(self.node.value, value) = "Less"
                            THEN self.node.right ELSE self.node.left
                   rc == add(child, value)
               IN  /\ (rc.deepened /\ self.node.balance_factor = 0) => r.deepened
                   /\ (rc.deepened /\ self.node.balance_factor # 0) => ~r.deepened
                   /\ DeepenedMatchesHeight(child, value)

\* C14: for every recursive call of add, deepened is true exactly when the
\* subtree is one level higher after the call (balance step included) and
\* false exactly when its height is unchanged; a node with prior factor 0
\* whose child grew reports deepened, one with prior factor +1 or -1 does not.
C14_DeepenedIsHeightDelta ==
    call.op = "insert" => DeepenedMatchesHeight(prev, call.arg)

\* An insert that was repaired by a rotation at the right child of the
\* root, leaving the root and the height of the tree as they were.
C14_Witness ==
    /\ call.op = "insert"
    /\ call.ret = TRUE
    /\ depth(prev) = 3
    /\ depth(tree) = 3
    /\ AVLTree_value(tree) = AVLTree_value(prev)
    /\ AVLTree_value(AVLTree_right(tree)) # AVLTree_value(AVLTree_right(prev))
    /\ ~add(prev, call.arg).deepened

\* The stored values a range with the given bounds has to yield, in order.
RangeReference(S, lo, hi) ==
    Sorted({v \in S : (lo = None \/ lo.v <= v) /\ (hi = None \/ v < hi.v)})

\* C15: for any combination of bounds (either omitted, both omitted,
\* start >= end), range yields exactly the stored v with start <= v and
\* v < end, in ascending order: nothing when start >= end, never an element
\* equal to end, always a stored element equal to start that is below end.
C15_RangeAnyBounds ==
    riter # None =>
        LET ref == RangeReference(inserted, start, riter.end)
        IN  /\ IsPrefix(out, ref)
            /\ RangeDone => out = ref
            /\ (start # None /\ riter.end # None /\ start.v >= riter.end.v) =>
                   out = <<>>

\* A range whose start is a stored value above its stored end ended without
\* yielding, with nodes left on its stack.
C15_Witness ==
    /\ riter # None /\ start # None /\ riter.end # None
    /\ start.v > riter.end.v
    /\ start.v \in inserted
    /\ riter.end.v \in inserted
    /\ RangeDone
    /\ out = <<>>
    /\ riter.stack # <<>>

\* C16: once next() on a range iterator has returned None, every later
\* next() on it returns None too.
C16_NoneStaysNone ==
    [][(RangeDone /\ call'.op = "next") => call'.ret = None]_vars

\* From an iterator over a tree whose left spine has three nodes, next()
\* has returned None at least twice without an item before: one node is
\* left of the three stacked at creation.
C16_Witness ==
    /\ riter # None /\ start = None /\ riter.end # None
    /\ RangeDone
    /\ out = <<>>
    /\ Len(RangeIter_traverse_left(<<>>, tree)) = 3
    /\ Len(riter.stack) = 1

RECURSIVE HasNode(_, _)
\* n is a node of the tree t.
HasNode(t, n) ==
    /\ t.tag = "NonEmpty"
    /\ \/ t.node = n
       \/ HasNode(t.node.left, n)
       \/ HasNode(t.node.right, n)

\* C17: the stack of a RangeIter holds nodes of one descent path, each in
\* the left subtree of the one below it, so it is never longer than the
\* tree is high; the stack of an IntoIter is never longer than the height of
\* the tree it was built from.
C17_StackIsDescentPath ==
    /\ riter # None =>
           /\ \A i \in 1..Len(riter.stack) : HasNode(tree, riter.stack[i])
           /\ \A i \in 1..(Len(riter.stack) - 1) :
                  HasNode(riter.stack[i].left, riter.stack[i + 1])
           /\ Len(riter.stack) <= depth(tree)
    /\ into # None => Len(into.stack) <= depth(prev)

\* After a next() of a range with a start bound, two nodes are stacked and
\* the upper one is not the left child of the lower one.
C17_Witness ==
    /\ riter # None /\ start # None
    /\ call.op = "next" /\ call.ret # None
    /\ Len(riter.stack) = 2
    /\ HasNode(riter.stack[1].left, riter.stack[2])
    /\ AVLTree_value(riter.stack[1].left) # Some(riter.stack[2].value)
    /\ depth(tree) = 3

RECURSIVE InOrder(_)
\* The values of a tree from left to right.
InOrder(t) ==
    IF t.tag # "NonEmpty" THEN <<>>
    ELSE InOrder(t.node.left) \o <<t.node.value>> \o InOrder(t.node.right)

\* C18: rotate_right on root R with non-empty left child L makes L the root,
\* R the right child of L and L's former right subtree the left subtree of
\* R; L's left subtree and R's right subtree stay, the in-order sequence is
\* unchanged and no value or balance_factor is modified.  rotate_left is the
\* mirror image.
C18_RotationReparents ==
    /\ (call.op = "rotate_right" /\ prev.tag = "NonEmpty"
            /\ prev.node.left.tag = "NonEmpty") =>
           LET R == prev.node
               L == prev.node.left.node
           IN  /\ ~panicked
               /\ tree.tag = "NonEmpty"
               /\ tree.node.value = L.value
               /\ tree.node.balance_factor = L.balance_factor
               /\ tree.node.left = L.left
               /\ tree.node.right.tag = "NonEmpty"
               /\ tree.node.right.node.value = R.value
               /\ tree.node.right.node.balance_factor = R.balance_factor
               /\ tree.node.right.node.left = L.right
               /\ tree.node.right.node.right = R.right
               /\ InOrder(tree) = InOrder(prev)
    /\ (call.op = "rotate_left" /\ prev.tag = "NonEmpty"
            /\ prev.node.right.tag = "NonEmpty") =>
           LET R == prev.node
               L == prev.node.right.node
           IN  /\ ~panicked
               /\ tree.tag = "NonEmpty"
               /\ tree.node.value = L.value
               /\ tree.node.balance_factor = L.balance_factor
               /\ tree.node.right = L.right
               /\ tree.node.left.tag = "NonEmpty"
               /\ tree.node.left.node.value = R.value
               /\ tree.node.left.node.balance_factor = R.balance_factor
               /\ tree.node.left.node.right = L.left
               /\ tree.node.left.node.left = R.left
               /\ InOrder(tree) = InOrder(prev)

\* rotate_right was applied to a root whose left child has two children and
\* whose right child exists, with factors that are not all zero.
C18_Witness ==
    /\ call.op = "rotate_right"
    /\ ~panicked
    /\ prev.tag = "NonEmpty"
    /\ prev.node.left.tag = "NonEmpty"
    /\ prev.node.right.tag = "NonEmpty"
    /\ prev.node.left.node.left.tag = "NonEmpty"
    /\ prev.node.left.node.right.tag = "NonEmpty"
    /\ prev.node.balance_factor = -1

RECURSIVE RebalancedSubtrees(_, _)
\* The subtrees on the search path of value that add rotates: those whose
\* root is another node after add.
RebalancedSubtrees(self, value) ==
    IF self.tag # "NonEmpty" \/ self.node.value = value THEN {}
    ELSE LET child == IF cmp(self.node.value, value) = "Less"
                      THEN self.node.right ELSE self.node.left
             here == IF AVLTree_value(add(self, value).tree) # AVLTree_value(self)
                     THEN {self} ELSE {}
         IN  here \cup RebalancedSubtrees(child, value)

RECURSIVE ReachedTwo(_, _)
\* The subtrees on the search path of value whose root gets factor 2 or -2
\* from add: the child deepened on the side that was already the higher.
ReachedTwo(self, value) ==
    IF self.tag # "NonEmpty" \/ self.node.value = value THEN {}
    ELSE LET less == cmp(self.node.value, value) = "Less"
             child == IF less THEN self.node.right ELSE self.node.left
             delta == IF less THEN 1 ELSE -1
             here == IF /\ add(child, value).deepened
                        /\ self.node.balance_factor + delta \in {-2, 2}
                     THEN {self} ELSE {}
         IN  here \cup ReachedTwo(child, value)

RECURSIVE AncestorsKept(_, _, _, _)
\* Walking from before (the tree before add) and after (the tree after)
\* down the search path of value to the subtree s of before: every node
\* above s has the same value and factor in after, and the subtree of after
\* in the place of s is as high as s.
AncestorsKept(before, after, s, value) ==
    IF before = s THEN depth(after) = depth(s)
    ELSE /\ before.tag = "NonEmpty"
         /\ after.tag = "NonEmpty"
         /\ after.node.value = before.node.value
         /\ after.node.balance_factor = before.node.balance_factor
         /\ IF cmp(before.node.value, value) = "Less"
            THEN AncestorsKept(before.node.right, after.node.right, s, value)
            ELSE AncestorsKept(before.node.left, after.node.left, s, value)

\* C19: during one insert at most one node of the search path reaches
\* factor 2 or -2 and at most one rebalancing is done; every ancestor of the
\* rotated subtree keeps its factor and the rotated subtree is as high as
\* before the insert.
C19_OneRebalance ==
    (call.op = "insert" /\ ~panicked) =>
        LET rs == RebalancedSubtrees(prev, call.arg)
        IN  /\ Cardinality(rs) <= 1
            /\ ReachedTwo(prev, call.arg) = rs
            /\ \A s \in rs : AncestorsKept(prev, tree, s, call.arg)

\* An insert was rebalanced below the root.
C19_Witness ==
    /\ call.op = "insert"
    /\ ~panicked
    /\ \E s \in RebalancedSubtrees(prev, call.arg) : s # prev
    /\ prev.node.balance_factor # 0

====
